---------------------------- MODULE Spec2Model ----------------------------
(***************************************************************************)
(* A model of autowordl.py: the scoring function, the feasibility filter,  *)
(* the guess pruner, the one-ply guess search, the WordlSolver session, the *)
(* WordlGame server and the self-play loop play_wordl.                      *)
(*                                                                          *)
(* A word is a sequence of WordLen one-character strings.  A feedback       *)
(* pattern is a sequence of WordLen one-character strings too: "." for a    *)
(* grey letter, the lower-case letter for a yellow one, the upper-case      *)
(* letter for a green one (the string score() joins its result list into).  *)
(***************************************************************************)
EXTENDS Integers, Sequences, FiniteSets, TLC

VARIABLES
    words,              \* the module-level dictionary, handed to WordlSolver / play_wordl
    solver_words,       \* WordlSolver.words
    solver_feasible,    \* WordlSolver.feasible
    solver_guesses,     \* WordlSolver.guesses
    solver_next_guess,  \* WordlSolver.next_guess
    lastOp,             \* the solver method that ran last, and how it ended
    secret,             \* the word the feedback oracle of a session holds
    truthful,           \* every result applied so far was the reference feedback for secret
    wordl_answer,       \* WordlGame.answer
    wordl_solved,       \* WordlGame.solved
    wordl_n_guesses,    \* WordlGame.n_guesses
    pc,                 \* the position of play_wordl
    sc_guess,           \* score(): argument guess
    sc_answer,          \* score(): argument answer
    sc_result,          \* score(): what it returned (Pending before the call)
    bg_pool,            \* best_guess(): argument reasonable_guesses
    bg_feasible,        \* best_guess(): argument feasible_words
    bg_result           \* best_guess(): what it returned (Pending before the call)

solverVars == <<words, solver_words, solver_feasible, solver_guesses,
                solver_next_guess, lastOp>>
oracleVars == <<secret, truthful>>
gameVars == <<wordl_answer, wordl_solved, wordl_n_guesses, pc>>
scoreVars == <<sc_guess, sc_answer, sc_result>>
bestVars == <<bg_pool, bg_feasible, bg_result>>

vars == <<solverVars, oracleVars, gameVars, scoreVars, bestVars>>

---------------------------------------------------------------------------
(* Characters *)

UpperCase == <<"A","B","C","D","E","F","G","H","I","J","K","L","M",
               "N","O","P","Q","R","S","T","U","V","W","X","Y","Z">>

LowerCase == <<"a","b","c","d","e","f","g","h","i","j","k","l","m",
               "n","o","p","q","r","s","t","u","v","w","x","y","z">>

Range(s) == { s[i] : i \in DOMAIN s }

Chars == Range(UpperCase) \cup Range(LowerCase) \cup {"."}

\* str.lower() and str.upper() of each one-character string
LowerOf ==
    [c \in Chars |->
        IF \E i \in DOMAIN UpperCase : UpperCase[i] = c
        THEN LowerCase[CHOOSE i \in DOMAIN UpperCase : UpperCase[i] = c]
        ELSE c]

UpperOf ==
    [c \in Chars |->
        IF \E i \in DOMAIN LowerCase : LowerCase[i] = c
        THEN UpperCase[CHOOSE i \in DOMAIN LowerCase : LowerCase[i] = c]
        ELSE c]

lower(c) == LowerOf[c]

upper(c) == UpperOf[c]

\* The word length the code fixes: ["."]*5, range(5).
WordLen == 5

\* Python's None, kept apart from every word and pattern (all of length WordLen).
None == <<"None">>

\* A call that has not been made yet.
Pending == <<"pending">>

\* An exception that left the call, by its class name.
Raised(exc) == <<"raised", exc>>

---------------------------------------------------------------------------
(* score(guess, answer) *)

\* lettercount after "for letter in answer: lettercount[letter] += 1".  A
\* defaultdict(int) reads 0 for every other key; the keys score() reads are
\* the letters of guess and of answer.
LetterCount(guess, answer) ==
    [c \in Range(guess) \cup Range(answer) |->
        Cardinality({ i \in DOMAIN answer : answer[i] = c })]

\* "Process the exact matches": the first loop, from index ii on.
RECURSIVE ExactPass(_, _, _, _)
ExactPass(guess, answer, ii, st) ==
    IF ii > WordLen THEN st
    ELSE ExactPass(guess, answer, ii + 1,
            IF guess[ii] = answer[ii]
            THEN [result |-> [st.result EXCEPT ![ii] = guess[ii]],
                  lettercount |-> [st.lettercount EXCEPT ![answer[ii]] = @ - 1]]
            ELSE st)

\* A second loop that forgets to consume the occurrence it reports.
RECURSIVE LeftoverPassNoConsume(_, _, _)
LeftoverPassNoConsume(guess, ii, st) ==
    IF ii > WordLen THEN st
    ELSE LeftoverPassNoConsume(guess, ii + 1,
            IF st.lettercount[guess[ii]] > 0
            THEN [result |-> [st.result EXCEPT ![ii] = lower(guess[ii])],
                  lettercount |-> st.lettercount]
            ELSE st)

\* "Process the leftover right letters in wrong position": the second loop,
\* from index ii on.  It tests every index, a green one included.
RECURSIVE LeftoverPass(_, _, _)
LeftoverPass(guess, ii, st) ==
    IF ii > WordLen THEN st
    ELSE LeftoverPass(guess, ii + 1,
            IF st.lettercount[guess[ii]] > 0
            THEN [result |-> [st.result EXCEPT ![ii] = lower(guess[ii])],
                  lettercount |-> [st.lettercount EXCEPT ![guess[ii]] = @ - 1]]
            ELSE st)

score(guess, answer) ==
    LeftoverPass(guess, 1,
        ExactPass(guess, answer, 1,
            [result |-> [i \in 1..WordLen |-> "."],
             lettercount |-> LetterCount(guess, answer)])).result

---------------------------------------------------------------------------
(* The feasibility filter and the guess pruner *)

word_still_feasible(possible_answer, guess, result) ==
    score(guess, possible_answer) = result

still_feasible(feasible_words, guess, result) ==
    SelectSeq(feasible_words,
              LAMBDA answer : word_still_feasible(answer, guess, result))

num_still_feasible(feasible_words, guess, result) ==
    Len(still_feasible(feasible_words, guess, result))

\* "letter in word" for a one-character string and a word
Contains(word, letter) == \E i \in DOMAIN word : word[i] = letter

\* reasonable_guesses: the loop over the positions, from index ii on
RECURSIVE PruneFrom(_, _, _, _)
PruneFrom(ws, guess, result, ii) ==
    IF ii > WordLen THEN ws
    ELSE PruneFrom(
            IF result[ii] = "."
            THEN SelectSeq(ws, LAMBDA word : ~Contains(word, upper(guess[ii])))
            ELSE ws,
            guess, result, ii + 1)

reasonable_guesses(ws, guess, result) == PruneFrom(ws, guess, result, 1)

---------------------------------------------------------------------------
(* evaluate_guess and best_guess *)

\* The sum evaluate_guess accumulates over feasible_words[k..].
RECURSIVE SumRemaining(_, _, _)
SumRemaining(guess, feasible_words, k) ==
    IF k > Len(feasible_words) THEN 0
    ELSE num_still_feasible(feasible_words, guess,
                            score(guess, feasible_words[k]))
         + SumRemaining(guess, feasible_words, k + 1)

\* evaluate_guess returns sum / len(feasible_words), a float; it is kept here
\* as the exact fraction.  The sums are small integers over one denominator,
\* so the floats compare as the fractions do.  An empty feasible_words
\* divides by zero.
evaluate_guess(guess, feasible_words) ==
    IF Len(feasible_words) = 0
    THEN Raised("ZeroDivisionError")
    ELSE [num |-> SumRemaining(guess, feasible_words, 1),
          den |-> Len(feasible_words)]

\* float('inf'), as a fraction every finite score is below
Inf == [num |-> 1, den |-> 0]

\* A comparison that lets a later guess with an equal score replace the best.
ImprovesOrTies(expected_num_remaining, best_score) ==
    expected_num_remaining.num * best_score.den
        <= best_score.num * expected_num_remaining.den

\* expected_num_remaining < best_score
Improves(expected_num_remaining, best_score) ==
    expected_num_remaining.num * best_score.den
        < best_score.num * expected_num_remaining.den

\* The loop of best_guess over reasonable_guesses[i..]; st holds the locals
\* best_score and best_guess.
RECURSIVE BestLoop(_, _, _, _)
BestLoop(pool, feasible_words, i, st) ==
    IF i > Len(pool) THEN st
    ELSE LET expected_num_remaining == evaluate_guess(pool[i], feasible_words)
         IN  BestLoop(pool, feasible_words, i + 1,
                IF Improves(expected_num_remaining, st.best_score)
                THEN [best_score |-> expected_num_remaining,
                      best_guess |-> pool[i]]
                ELSE st)

\* best_guess returns the local best_guess, None when the loop body never
\* assigned it.  The first evaluate_guess over an empty feasible_words raises,
\* and the exception leaves best_guess.
best_guess(pool, feasible_words) ==
    IF Len(pool) > 0 /\ Len(feasible_words) = 0
    THEN Raised("ZeroDivisionError")
    ELSE BestLoop(pool, feasible_words, 1,
                  [best_score |-> Inf, best_guess |-> None]).best_guess

\* How many times best_guess calls evaluate_guess.
EvaluateCalls(pool, feasible_words) ==
    IF Len(pool) > 0 /\ Len(feasible_words) = 0 THEN 1 ELSE Len(pool)

---------------------------------------------------------------------------
(* The bounded inputs *)

\* The words the dictionaries, guesses and answers are drawn from.
Universe ==
    << <<"Y","U","M","M","Y">>, <<"F","I","Z","Z","Y">>,
       <<"G","O","O","D","Y">>, <<"M","U","M","M","Y">>,
       <<"D","A","N","D","Y">>, <<"D","R","I","N","K">>,
       <<"Q","U","E","R","Y">>, <<"B","A","R","E","S">> >>

\* The words of the cases of test_score.py.
TestWords ==
    { <<"B","A","T","H","E">>, <<"S","P","O","O","N">>,
      <<"T","R","Y","S","T">>, <<"D","R","I","N","K">>,
      <<"D","A","N","D","Y">> }

\* How many words of Universe are in use.
NumWords == 5

\* The longest dictionary.
MaxDict == 2

\* The longest dictionary of a game of self-play.
PlayDict == 4

\* The longest guess pool and the longest feasible list handed to best_guess
\* on its own.
MaxPool == 2

MaxFeasible == 2

\* The number of letters of the alphabet the pairs given to score() are
\* drawn over.
ScoreLetters == 2

\* The rounds of self-play after which the model stops counting.
MaxGuesses == 6

UniverseSet ==
    { Universe[i] : i \in 1..(IF NumWords < Len(Universe) THEN NumWords
                              ELSE Len(Universe)) }

\* The lists of 0..n distinct words of the universe.
Lists(n) ==
    UNION { { l \in [1..k -> UniverseSet] :
                \A i, j \in 1..k : i # j => l[i] # l[j] } : k \in 0..n }

Dictionaries == Lists(MaxDict) \ {<<>>}

ScoreAlphabet == { UpperCase[i] : i \in 1..ScoreLetters }

ScoreWords == [1..WordLen -> ScoreAlphabet] \cup UniverseSet \cup TestWords

\* The first guess the solver hardcodes.
SeedGuess == <<"S","L","A","N","T">>

---------------------------------------------------------------------------
(* The reference feedback rule: exact matches first; then, left to right,  *)
(* each position not already marked exact takes an unconsumed occurrence.  *)

RECURSIVE ReferenceSecondPass(_, _, _, _)
ReferenceSecondPass(guess, answer, ii, st) ==
    IF ii > WordLen THEN st
    ELSE ReferenceSecondPass(guess, answer, ii + 1,
            IF guess[ii] # answer[ii] /\ st.lettercount[guess[ii]] > 0
            THEN [result |-> [st.result EXCEPT ![ii] = lower(guess[ii])],
                  lettercount |-> [st.lettercount EXCEPT ![guess[ii]] = @ - 1]]
            ELSE st)

feedback(guess, answer) ==
    ReferenceSecondPass(guess, answer, 1,
        ExactPass(guess, answer, 1,
            [result |-> [i \in 1..WordLen |-> "."],
             lettercount |-> LetterCount(guess, answer)])).result

---------------------------------------------------------------------------
(* WordlSolver *)

Op(name, ret, searched, evals) ==
    [op |-> name, ret |-> ret, searched |-> searched, evals |-> evals]

\* WordlSolver.__init__(ws)
SolverConstructed(ws) ==
    /\ solver_words = ws
    /\ solver_feasible = ws
    /\ solver_guesses = ws
    /\ solver_next_guess = SeedGuess
    /\ lastOp = Op("__init__", None, FALSE, 0)

\* The local guess of think(): the only feasible word, or what best_guess
\* returns (or raises).
think_guess(feasible_words, pool) ==
    IF Len(feasible_words) = 1
    THEN feasible_words[1]
    ELSE best_guess(pool, feasible_words)

IsRaised(v) == Len(v) = 2 /\ v[1] = "raised"

\* What a caller hands to apply_result: as guess a word of the dictionary or
\* the seed guess; as result the score of the guess against some word, or the
\* reference feedback for the oracle's secret.
GuessesOf(ws) == Range(ws) \cup {SeedGuess}

ResultsFor(guess) ==
    { score(guess, w) : w \in UniverseSet } \cup { feedback(guess, secret) }

\* A reset that forgets to restore the guess pool.
ResetKeepsGuessPool ==
    /\ solver_words' = solver_words
    /\ solver_feasible' = solver_words
    /\ solver_guesses' = solver_guesses
    /\ solver_next_guess' = SeedGuess
    /\ lastOp' = Op("reset", None, FALSE, 0)
    /\ UNCHANGED <<words, oracleVars, gameVars, scoreVars, bestVars>>

\* WordlSolver.reset(): self.__init__(self.words)
Reset ==
    /\ solver_words' = solver_words
    /\ solver_feasible' = solver_words
    /\ solver_guesses' = solver_words
    /\ solver_next_guess' = SeedGuess
    /\ lastOp' = Op("reset", None, FALSE, 0)
    /\ UNCHANGED <<words, oracleVars, gameVars, scoreVars, bestVars>>

\* WordlSolver.apply_result(guess, result)
ApplyResult ==
    \E guess \in GuessesOf(solver_words) :
      \E result \in ResultsFor(guess) :
        /\ solver_feasible' = still_feasible(solver_feasible, guess, result)
        /\ solver_guesses' = reasonable_guesses(solver_guesses, guess, result)
        /\ lastOp' = Op("apply_result", None, FALSE, 0)
        /\ truthful' = (truthful /\ result = feedback(guess, secret))
        /\ UNCHANGED <<words, solver_words, solver_next_guess, secret,
                       gameVars, scoreVars, bestVars>>

\* A think() that searches whatever the size of the feasible list.
ThinkAlwaysSearches ==
    LET guess == best_guess(solver_guesses, solver_feasible)
    IN  /\ solver_next_guess' = IF IsRaised(guess) THEN solver_next_guess
                                ELSE guess
        /\ lastOp' = Op("think", guess, TRUE,
                        EvaluateCalls(solver_guesses, solver_feasible))
        /\ UNCHANGED <<words, solver_words, solver_feasible, solver_guesses,
                       oracleVars, gameVars, scoreVars, bestVars>>

\* A think() that also narrows the guess pool to the feasible words.
ThinkNarrowsPool ==
    LET guess == think_guess(solver_feasible, solver_feasible)
        searched == Len(solver_feasible) # 1
    IN  /\ solver_next_guess' = IF IsRaised(guess) THEN solver_next_guess
                                ELSE guess
        /\ solver_guesses' = solver_feasible
        /\ lastOp' = Op("think", guess, searched,
                        IF searched
                        THEN EvaluateCalls(solver_feasible, solver_feasible)
                        ELSE 0)
        /\ UNCHANGED <<words, solver_words, solver_feasible,
                       oracleVars, gameVars, scoreVars, bestVars>>

\* WordlSolver.think(): an exception of best_guess leaves think before
\* next_guess is assigned.
Think ==
    LET guess == think_guess(solver_feasible, solver_guesses)
        searched == Len(solver_feasible) # 1
    IN  /\ solver_next_guess' = IF IsRaised(guess) THEN solver_next_guess
                                ELSE guess
        /\ lastOp' = Op("think", guess, searched,
                        IF searched
                        THEN EvaluateCalls(solver_guesses, solver_feasible)
                        ELSE 0)
        /\ UNCHANGED <<words, solver_words, solver_feasible, solver_guesses,
                       oracleVars, gameVars, scoreVars, bestVars>>

---------------------------------------------------------------------------
(* The specification of a solver session *)

NoGame ==
    /\ wordl_answer = None
    /\ wordl_solved = FALSE
    /\ wordl_n_guesses = 0
    /\ pc = "idle"

NoScoreCall == sc_guess = None /\ sc_answer = None /\ sc_result = Pending

NoBestGuessCall == bg_pool = <<>> /\ bg_feasible = <<>> /\ bg_result = Pending

NoSolver ==
    /\ words = <<>>
    /\ solver_words = <<>>
    /\ solver_feasible = <<>>
    /\ solver_guesses = <<>>
    /\ solver_next_guess = None
    /\ lastOp = Op("none", None, FALSE, 0)
    /\ secret = None
    /\ truthful = TRUE

Init ==
    /\ words \in Dictionaries
    /\ SolverConstructed(words)
    /\ secret \in Range(words)
    /\ truthful = TRUE
    /\ NoGame
    /\ NoScoreCall
    /\ NoBestGuessCall

Next == ApplyResult \/ Think \/ Reset

Spec == Init /\ [][Next]_vars

---------------------------------------------------------------------------
(* score() on its own: every pair of words over the alphabet *)

ScoreInit ==
    /\ sc_guess \in ScoreWords
    /\ sc_answer \in ScoreWords
    /\ sc_result = Pending
    /\ NoSolver
    /\ NoGame
    /\ NoBestGuessCall

ScoreCall ==
    /\ sc_result = Pending
    /\ sc_result' = score(sc_guess, sc_answer)
    /\ UNCHANGED <<sc_guess, sc_answer, solverVars, oracleVars, gameVars,
                   bestVars>>

ScoreNext == ScoreCall

SpecScore == ScoreInit /\ [][ScoreNext]_vars

---------------------------------------------------------------------------
(* best_guess() on its own: every guess pool against every feasible list *)

BestInit ==
    /\ bg_pool \in Lists(MaxPool)
    /\ bg_feasible \in Lists(MaxFeasible)
    /\ bg_result = Pending
    /\ NoSolver
    /\ NoGame
    /\ NoScoreCall

BestGuessCall ==
    /\ bg_result = Pending
    /\ bg_result' = best_guess(bg_pool, bg_feasible)
    /\ UNCHANGED <<bg_pool, bg_feasible, solverVars, oracleVars, gameVars,
                   scoreVars>>

BestNext == BestGuessCall

SpecBest == BestInit /\ [][BestNext]_vars

---------------------------------------------------------------------------
(* play_wordl(words): WordlGame against WordlSolver *)

\* wordl = WordlGame(words); solver = WordlSolver(words).  random.choice
\* picks any word of the dictionary.
PlayInit ==
    /\ words \in Lists(PlayDict) \ {<<>>}
    /\ SolverConstructed(words)
    /\ wordl_answer \in Range(words)
    /\ wordl_solved = FALSE
    /\ wordl_n_guesses = 0
    /\ pc = "loop"
    /\ secret = wordl_answer
    /\ truthful = TRUE
    /\ NoScoreCall
    /\ NoBestGuessCall

\* One turn of the while loop: wordl.guess(solver.next_guess), then either
\* the break, or solver.apply_result and solver.think.  score(None, answer)
\* raises TypeError at guess[ii], after n_guesses was counted; an exception
\* of think leaves play_wordl.
PlayRound ==
    /\ pc = "loop"
    /\ wordl_n_guesses < MaxGuesses
    /\ wordl_n_guesses' = wordl_n_guesses + 1
    /\ IF solver_next_guess = None
       THEN /\ pc' = "TypeError"
            /\ UNCHANGED <<wordl_solved, solver_feasible, solver_guesses,
                           solver_next_guess, lastOp>>
       ELSE LET guess == solver_next_guess
                result == score(guess, wordl_answer)
                new_feasible == still_feasible(solver_feasible, guess, result)
                new_guesses == reasonable_guesses(solver_guesses, guess, result)
                thought == think_guess(new_feasible, new_guesses)
                searched == Len(new_feasible) # 1
            IN  /\ wordl_solved' = (guess = wordl_answer)
                /\ IF guess = wordl_answer
                   THEN /\ pc' = "done"
                        /\ UNCHANGED <<solver_feasible, solver_guesses,
                                       solver_next_guess, lastOp>>
                   ELSE /\ solver_feasible' = new_feasible
                        /\ solver_guesses' = new_guesses
                        /\ solver_next_guess' =
                              IF IsRaised(thought) THEN solver_next_guess
                              ELSE thought
                        /\ lastOp' = Op("think", thought, searched,
                                        IF searched
                                        THEN EvaluateCalls(new_guesses, new_feasible)
                                        ELSE 0)
                        /\ pc' = IF IsRaised(thought) THEN thought[2]
                                 ELSE "loop"
    /\ UNCHANGED <<words, solver_words, wordl_answer, oracleVars, scoreVars,
                   bestVars>>

PlayNext == PlayRound

\* The loop runs on by itself: a turn that can be taken is taken.
SpecPlay == PlayInit /\ [][PlayNext]_vars /\ WF_vars(PlayNext)

---------------------------------------------------------------------------
(* Properties of score() *)

ScoreReturned == sc_result # Pending

\* The positions of a pattern that show letter l, green or yellow.
Shown(pattern, l) ==
    { i \in DOMAIN pattern : pattern[i] = l \/ pattern[i] = lower(l) }

Occurrences(word, l) == { i \in DOMAIN word : word[i] = l }

\* C1: score(guess, answer) is the pattern of the two-pass reference rule:
\* every exact match is reported in upper case, and only the positions not
\* already marked exact can be reported in lower case.
ScoreIsReferenceFeedback ==
    ScoreReturned => sc_result = feedback(sc_guess, sc_answer)

\* C7: letter-count conservation: for every letter, the positions of
\* score(guess, answer) that show it, green or yellow, are at most as many as
\* its occurrences in answer.
LetterCountConservation ==
    ScoreReturned =>
        \A l \in Range(UpperCase) :
            Cardinality(Shown(sc_result, l))
                <= Cardinality(Occurrences(sc_answer, l))

\* score() has run on a guess that repeats a letter more often than the
\* answer holds it: the letter is shown green once and yellow once, which
\* uses up its occurrences in the answer, and is grey at a further position.
LetterCountCapReached ==
    /\ ScoreReturned
    /\ \E l \in Range(UpperCase) :
        /\ Cardinality(Occurrences(sc_guess, l))
              > Cardinality(Occurrences(sc_answer, l))
        /\ \E i, j, k \in 1..WordLen :
              /\ sc_result[i] = l
              /\ sc_result[j] = lower(l)
              /\ sc_guess[k] = l /\ sc_result[k] = "."
        /\ Cardinality(Shown(sc_result, l))
              = Cardinality(Occurrences(sc_answer, l))

---------------------------------------------------------------------------
(* Properties of best_guess() *)

BestGuessReturned == bg_result # Pending

\* The sum, over the answers a of a feasible list, of the number of feasible
\* words w with score(guess, w) = score(guess, a): expected_remaining times
\* the length of the list.
RECURSIVE ExpectedSumFrom(_, _, _)
ExpectedSumFrom(guess, feasible_words, k) ==
    IF k > Len(feasible_words) THEN 0
    ELSE Cardinality({ j \in DOMAIN feasible_words :
                         score(guess, feasible_words[j])
                            = score(guess, feasible_words[k]) })
         + ExpectedSumFrom(guess, feasible_words, k + 1)

ExpectedSum(guess, feasible_words) == ExpectedSumFrom(guess, feasible_words, 1)

\* The index of the first word of the pool whose expected_remaining is the
\* minimum over the pool.
FirstMinimum(pool, feasible_words) ==
    CHOOSE i \in DOMAIN pool :
        /\ \A j \in DOMAIN pool :
              ExpectedSum(pool[i], feasible_words)
                  <= ExpectedSum(pool[j], feasible_words)
        /\ \A j \in 1..(i - 1) :
              ExpectedSum(pool[j], feasible_words)
                  > ExpectedSum(pool[i], feasible_words)

\* C3: over a non-empty guess pool and a non-empty feasible list, best_guess
\* returns the first word in pool order whose expected_remaining is the
\* minimum over the pool; a later guess with an equal score does not replace it.
BestGuessIsFirstMinimum ==
    (BestGuessReturned /\ bg_pool # <<>> /\ bg_feasible # <<>>) =>
        bg_result = bg_pool[FirstMinimum(bg_pool, bg_feasible)]

\* best_guess has run on a pool in which a later word ties with an earlier
\* one at the minimum, and has returned the earlier one.
BestGuessTieSeen ==
    /\ BestGuessReturned
    /\ Len(bg_feasible) > 1
    /\ \E i, j \in DOMAIN bg_pool :
          /\ i < j
          /\ bg_result = bg_pool[i]
          /\ ExpectedSum(bg_pool[i], bg_feasible)
                = ExpectedSum(bg_pool[j], bg_feasible)
          /\ ExpectedSum(bg_pool[i], bg_feasible)
                < Len(bg_feasible) * Len(bg_feasible)

\* C4: best_guess over an empty guess pool fails with an EmptyPool error; it
\* returns no value, None included, whatever the feasible list is.
BestGuessEmptyPoolRaises ==
    (BestGuessReturned /\ bg_pool = <<>>) => bg_result = Raised("EmptyPool")

---------------------------------------------------------------------------
(* Properties of the solver session *)

RECURSIVE IsSubsequence(_, _)
IsSubsequence(a, b) ==
    IF a = <<>> THEN TRUE
    ELSE IF b = <<>> THEN FALSE
    ELSE IF Head(a) = Head(b) THEN IsSubsequence(Tail(a), Tail(b))
    ELSE IsSubsequence(a, Tail(b))

\* C2: soundness of the feasible set: while every result applied was the
\* reference feedback for a secret of the dictionary, the secret is still in
\* the solver's feasible list.
SecretStaysFeasible ==
    (truthful /\ secret \in Range(solver_words)) =>
        secret \in Range(solver_feasible)

\* C5: with an empty feasible list, think() fails with an error, whatever the
\* guess pool holds, and returns no recommendation.
ThinkFailsInContradiction ==
    (lastOp.op = "think" /\ solver_feasible = <<>>) => IsRaised(lastOp.ret)

\* C6: with exactly one feasible word, think() returns it and records it as
\* next_guess without calling best_guess or evaluate_guess, whatever the
\* guess pool holds.
DeterminedThinkSkipsSearch ==
    (lastOp.op = "think" /\ Len(solver_feasible) = 1) =>
        /\ lastOp.ret = solver_feasible[1]
        /\ solver_next_guess = solver_feasible[1]
        /\ ~lastOp.searched
        /\ lastOp.evals = 0

\* think() has run with one feasible word and a guess pool that is empty.
DeterminedWithEmptyPool ==
    /\ lastOp.op = "think"
    /\ Len(solver_feasible) = 1
    /\ solver_guesses = <<>>
    /\ solver_next_guess = solver_feasible[1]

\* C8: think() leaves the feasible list, the guess pool and the dictionary
\* unchanged; apply_result() changes only the feasible list and the guess
\* pool, each to a sub-sequence of its previous value, and leaves the
\* dictionary and next_guess unchanged.
FrameConditions ==
    [][ /\ lastOp'.op = "think" =>
            /\ solver_feasible' = solver_feasible
            /\ solver_guesses' = solver_guesses
            /\ solver_words' = solver_words
            /\ words' = words
        /\ lastOp'.op = "apply_result" =>
            /\ IsSubsequence(solver_feasible', solver_feasible)
            /\ IsSubsequence(solver_guesses', solver_guesses)
            /\ solver_words' = solver_words
            /\ words' = words
            /\ solver_next_guess' = solver_next_guess ]_vars

\* think() has set next_guess after apply_result had shrunk both the
\* feasible list and the guess pool.
ThoughtAfterShrink ==
    /\ lastOp.op = "think"
    /\ lastOp.ret = solver_next_guess
    /\ solver_next_guess # SeedGuess
    /\ Len(solver_feasible) < Len(solver_words)
    /\ Len(solver_guesses) < Len(solver_words)

\* C9: reset() returns the session to its initial state: the feasible list
\* and the guess pool are the dictionary given at construction, in its
\* order, and next_guess is the seed guess.
ResetRestoresInitialState ==
    lastOp.op = "reset" =>
        /\ solver_words = words
        /\ solver_feasible = words
        /\ solver_guesses = words
        /\ solver_next_guess = SeedGuess

\* reset() has run in a session in which a result that was not the feedback
\* for the secret had been applied.
ResetAfterFeedback == lastOp.op = "reset" /\ ~truthful

---------------------------------------------------------------------------
(* Properties of self-play *)

\* C10: self-play ends solved, for every dictionary and every answer of it:
\* until the game is solved the loop is running and the solver holds a word
\* to guess next; think() never leaves it without one.
SelfPlayGoesOnUntilSolved ==
    wordl_solved \/ (pc = "loop" /\ solver_next_guess # None)

\* The game is over, solved or not, before the model stops counting.
PlayWithinBound == pc = "loop" => wordl_n_guesses < MaxGuesses

====
